---- MODULE Spec2Model ----
(***************************************************************************)
(* A model of the audit pipeline of this repository:                       *)
(*   - src/audit_tools.py: the orchestrator main() and the three audits    *)
(*     run_fairlearn, run_giskard and run_credo;                           *)
(*   - src/train.py: file_sha256 and the integrity manifest of main().     *)
(*                                                                         *)
(* Environment assumptions, stated once: a file that exists can be read    *)
(* and parsed, model.predict returns one label per row, creating the       *)
(* report's parent directory and Path.write_text succeed.  Everything the  *)
(* code itself guards (missing files, missing libraries, missing columns,  *)
(* the scan engine raising, write_bytes raising) is modelled.  Rates are   *)
(* exact fractions <<num, den>> in lowest terms instead of floats.         *)
(***************************************************************************)
EXTENDS Integers, Sequences, FiniteSets, TLC

\* ------------------------------------------------------------------ bounds
\* Rows of a dataset handed to run_fairlearn.
MaxRows == 3
\* Bytes of a file handed to file_sha256.
MaxFileLen == 4
\* Times the integrity manifest is built over the same files.
MaxRuns == 2
\* The read chunk of file_sha256: 1024 * 1024 in src/train.py line 94, scaled
\* down so that files of 0..MaxFileLen bytes cover the empty file, a partial
\* last chunk and exact multiples of the chunk.
BUF_SIZE == 2

\* Values of a numeric feature column, class labels, bytes.
Values == {1, 2, 3}
Labels == {1, 2}
Bytes == {0, 1}

\* ------------------------------------------------------------- exact rates
RECURSIVE GCD(_, _)
GCD(a, b) == IF b = 0 THEN a ELSE GCD(b, a % b)

\* n / d in lowest terms, d > 0.
Rat(n, d) == IF n = 0 THEN <<0, 1>> ELSE <<n \div GCD(n, d), d \div GCD(n, d)>>

RLess(a, b) == a[1] * b[2] < b[1] * a[2]
RLeq(a, b) == a[1] * b[2] <= b[1] * a[2]
RSub(a, b) == Rat(a[1] * b[2] - b[1] * a[2], a[2] * b[2])
RMaxOf(S) == CHOOSE r \in S : \A q \in S : RLeq(q, r)
RMinOf(S) == CHOOSE r \in S : \A q \in S : RLeq(r, q)

Range(s) == {s[i] : i \in DOMAIN s}

\* --------------------------------------------------------------- dataframes
\* A dataframe: its columns in declared order, one sequence of values per
\* column, and its row count (df.shape[0]).
Frame(cols, data, n) == [columns |-> cols, data |-> data, nrows |-> n]

\* feature_cols = [c for c in df.columns if c != "target"]
feature_cols(df) == SelectSeq(df.columns, LAMBDA c : c # "target")

\* df["target"] raises KeyError when the column is absent.
has_target(df) == \E i \in DOMAIN df.columns : df.columns[i] = "target"

\* pd.unique(s): the distinct values of s in order of first appearance.
RECURSIVE unique(_)
unique(s) ==
    IF s = <<>> THEN <<>>
    ELSE LET init == unique(SubSeq(s, 1, Len(s) - 1))
             last == s[Len(s)]
         IN IF last \in Range(init) THEN init ELSE Append(init, last)

\* pos_label = pd.unique(y_true)[0]
pos_label_np_unique(y_true) == CHOOSE v \in Range(y_true) : \A w \in Range(y_true) : v <= w
pos_label(y_true) == unique(y_true)[1]

\* (s == pos_label).astype(int)
binarize(s, pos) == [i \in DOMAIN s |-> IF s[i] = pos THEN 1 ELSE 0]

\* Series.median(): the middle of the sorted values, the mean of the two
\* middle values when the count is even.
median(col) ==
    LET s == SortSeq(col, LAMBDA a, b : a < b)
        n == Len(s)
    IN IF n % 2 = 1 THEN Rat(s[(n + 1) \div 2], 1)
       ELSE Rat(s[n \div 2] + s[n \div 2 + 1], 2)

\* sensitive_col = feature_cols[0]
sensitive_col(df) == feature_cols(df)[1]

\* (df[c] > df[c].median()).map({True: "high_<c>", False: "low_<c>"}); the
\* label "high_<c>" is the pair <<"high", c>>.
sensitive_geq(df) ==
    LET c == sensitive_col(df)
        m == median(df.data[c])
    IN [i \in 1..df.nrows |->
          IF RLeq(m, Rat(df.data[c][i], 1)) THEN <<"high", c>> ELSE <<"low", c>>]
sensitive(df) ==
    LET c == sensitive_col(df)
        m == median(df.data[c])
    IN [i \in 1..df.nrows |->
          IF RLess(m, Rat(df.data[c][i], 1)) THEN <<"high", c>> ELSE <<"low", c>>]

\* ------------------------------------------------------------------ metrics
\* Each metric is taken over a set I of row indexes (a group, or all rows).
\* sklearn accuracy_score: the fraction of rows with y_pred = y_true.
accuracy_score(yt, yp, I) ==
    Rat(Cardinality({i \in I : yt[i] = yp[i]}), Cardinality(I))

\* fairlearn selection_rate: the fraction of rows predicted 1.
selection_rate(yt, yp, I) ==
    Rat(Cardinality({i \in I : yp[i] = 1}), Cardinality(I))

\* fairlearn true_positive_rate: the confusion matrix normalised over the
\* true rows; a row of the matrix without samples gives 0 (nan_to_num).
true_positive_rate(yt, yp, I) ==
    LET P == {i \in I : yt[i] = 1}
    IN IF P = {} THEN <<0, 1>>
       ELSE Rat(Cardinality({i \in P : yp[i] = 1}), Cardinality(P))

false_positive_rate(yt, yp, I) ==
    LET N == {i \in I : yt[i] = 0}
    IN IF N = {} THEN <<0, 1>>
       ELSE Rat(Cardinality({i \in N : yp[i] = 1}), Cardinality(N))

\* The rows of group g.
GroupRows(sf, g) == {i \in DOMAIN sf : sf[i] = g}

\* MetricFrame(metrics={accuracy, selection_rate}, ...): overall over all
\* rows, by_group indexed by the distinct values of sensitive_features.
MetricFrame_fixed_groups(yt, yp, sf) ==
    LET c == sf[1][2]
        G == {<<"high", c>>, <<"low", c>>}
        M(I) == IF I = {} THEN [accuracy |-> <<0, 1>>, selection_rate |-> <<0, 1>>]
                ELSE [accuracy |-> accuracy_score(yt, yp, I),
                      selection_rate |-> selection_rate(yt, yp, I)]
    IN [overall |-> M(DOMAIN sf), by_group |-> [g \in G |-> M(GroupRows(sf, g))]]
MetricFrame(yt, yp, sf) ==
    [overall |-> [accuracy |-> accuracy_score(yt, yp, DOMAIN sf),
                  selection_rate |-> selection_rate(yt, yp, DOMAIN sf)],
     by_group |-> [g \in Range(sf) |->
                     [accuracy |-> accuracy_score(yt, yp, GroupRows(sf, g)),
                      selection_rate |-> selection_rate(yt, yp, GroupRows(sf, g))]]]

\* MetricFrame.difference(method="between_groups") over the per-group values
\* of one metric: group max - group min.
difference(by) == RSub(RMaxOf(by), RMinOf(by))

\* fairlearn demographic_parity_difference.
demographic_parity_difference_vs_overall(yt, yp, sf) ==
    LET by == {selection_rate(yt, yp, GroupRows(sf, g)) : g \in Range(sf)}
    IN RSub(RMaxOf(by), selection_rate(yt, yp, DOMAIN sf))
demographic_parity_difference(yt, yp, sf) ==
    difference({selection_rate(yt, yp, GroupRows(sf, g)) : g \in Range(sf)})

\* fairlearn equalized_odds_difference (agg="worst_case"): the larger of the
\* true-positive-rate and false-positive-rate differences.
equalized_odds_difference(yt, yp, sf) ==
    LET t == difference({true_positive_rate(yt, yp, GroupRows(sf, g)) : g \in Range(sf)})
        f == difference({false_positive_rate(yt, yp, GroupRows(sf, g)) : g \in Range(sf)})
    IN IF RLeq(f, t) THEN t ELSE f

\* ------------------------------------------------------------ run_fairlearn
\* What a call returns to main(): it raised (with str(exc)), or it wrote the
\* payload to its report path.  locals are run_fairlearn's local variables
\* at its return, kept for the properties that speak of them.
NoLocals == [none |-> TRUE]
Raised(msg) == [raised |-> TRUE, message |-> msg, payload |-> [none |-> TRUE],
                locals |-> NoLocals]
Wrote(payload, locals) == [raised |-> FALSE, message |-> "", payload |-> payload,
                           locals |-> locals]

\* Lines 52-67: y_true, y_pred, pos_label, the binarized pair, sensitive.
fairlearn_locals(df, y_pred) ==
    LET y_true == df.data["target"]
        pos == pos_label(y_true)
    IN [y_true |-> y_true,
        y_pred |-> y_pred,
        pos_label |-> pos,
        y_true_bin |-> binarize(y_true, pos),
        y_pred_bin |-> binarize(y_pred, pos),
        sensitive |-> sensitive(df)]

\* Lines 69-97: the report dictionary.
fairlearn_report(L) ==
    LET mf == MetricFrame(L.y_true_bin, L.y_pred_bin, L.sensitive)
    IN [sensitive_feature |-> "sepal_length_high_vs_low",
        overall |-> mf.overall,
        by_group |-> mf.by_group,
        demographic_parity_difference |->
            demographic_parity_difference(L.y_true_bin, L.y_pred_bin, L.sensitive),
        equalized_odds_difference |->
            equalized_odds_difference(L.y_true_bin, L.y_pred_bin, L.sensitive)]

\* run_fairlearn(df, model, output); y_pred is what model.predict(X) returns.
\* df["target"] raises KeyError('target'); on a dataset without rows
\* pd.unique(y_true)[0] raises IndexError (if model.predict did not raise
\* on the empty input before it).
run_fairlearn_single_group_error(libs, df, y_pred) ==
    IF "fairlearn" \notin libs THEN Raised("fairlearn is not installed")
    ELSE IF feature_cols(df) = <<>> THEN Raised("Dataset is missing feature columns.")
    ELSE IF ~has_target(df) THEN Raised("'target'")
    ELSE IF df.nrows = 0 THEN Raised("index 0 is out of bounds for axis 0 with size 0")
    ELSE IF Cardinality(Range(sensitive(df))) < 2 THEN Raised("InsufficientGroupsError")
    ELSE Wrote(fairlearn_report(fairlearn_locals(df, y_pred)), fairlearn_locals(df, y_pred))
run_fairlearn(libs, df, y_pred) ==
    IF "fairlearn" \notin libs THEN Raised("fairlearn is not installed")
    ELSE IF feature_cols(df) = <<>> THEN Raised("Dataset is missing feature columns.")
    ELSE IF ~has_target(df) THEN Raised("'target'")
    ELSE IF df.nrows = 0 THEN Raised("index 0 is out of bounds for axis 0 with size 0")
    ELSE Wrote(fairlearn_report(fairlearn_locals(df, y_pred)), fairlearn_locals(df, y_pred))

\* -------------------------------------------------------------- run_giskard
\* The calls run_giskard makes that can raise, in the order it makes them.
EngineCalls == {"Dataset", "Model", "scan", "to_json", "write_bytes"}
NotCalled == [c \in EngineCalls |-> "not_called"]

\* Which calls are reached, given what each would do (choice: call ->
\* "returned" | "raised"); a call that is not reached is "not_called".
engine_calls(libs, df, choice) ==
    LET pre == "giskard" \in libs /\ feature_cols(df) # <<>> /\ has_target(df)
        d == IF pre THEN choice["Dataset"] ELSE "not_called"
        m == IF d = "returned" THEN choice["Model"] ELSE "not_called"
        sc == IF m = "returned" THEN choice["scan"] ELSE "not_called"
        tj == IF sc = "returned" THEN choice["to_json"] ELSE "not_called"
        wb == IF m = "returned" THEN choice["write_bytes"] ELSE "not_called"
    IN [c \in EngineCalls |->
          CASE c = "Dataset" -> d
            [] c = "Model" -> m
            [] c = "scan" -> sc
            [] c = "to_json" -> tj
            [] c = "write_bytes" -> wb]

\* json.dumps({"warning": "giskard scan failed", "error": str(exc)})
DegradedPayload == [warning |-> "giskard scan failed", error |-> "str(exc)"]
\* report.to_json(): the engine's own serialisation.
NativePayload == [scan_report |-> "report.to_json()"]

\* run_giskard(df, model, output), eng the outcome of each call it reaches.
\* Lines 113-123 (Dataset, Model) are outside the try of lines 126-130; the
\* write of lines 132-136 falls back to write_text when write_bytes raises,
\* with the same report_json.
run_giskard_absorb_import(libs, df, eng) ==
    IF "giskard" \notin libs THEN Wrote(DegradedPayload, NoLocals)
    ELSE IF feature_cols(df) = <<>> THEN Raised("Dataset is missing feature columns.")
    ELSE IF ~has_target(df) THEN Raised("'target'")
    ELSE IF eng["Dataset"] = "raised" THEN Raised("giskard.Dataset raised")
    ELSE IF eng["Model"] = "raised" THEN Raised("giskard.Model raised")
    ELSE IF eng["scan"] = "raised" \/ eng["to_json"] = "raised"
         THEN Wrote(DegradedPayload, NoLocals)
    ELSE Wrote(NativePayload, NoLocals)
run_giskard(libs, df, eng) ==
    IF "giskard" \notin libs THEN Raised("giskard is not installed")
    ELSE IF feature_cols(df) = <<>> THEN Raised("Dataset is missing feature columns.")
    ELSE IF ~has_target(df) THEN Raised("'target'")
    ELSE IF eng["Dataset"] = "raised" THEN Raised("giskard.Dataset raised")
    ELSE IF eng["Model"] = "raised" THEN Raised("giskard.Model raised")
    ELSE IF eng["scan"] = "raised" \/ eng["to_json"] = "raised"
         THEN Wrote(DegradedPayload, NoLocals)
    ELSE Wrote(NativePayload, NoLocals)

\* ---------------------------------------------------------------- run_credo
run_credo(libs, df) ==
    IF "credoai" \notin libs THEN Raised("credoai is not installed")
    ELSE Wrote([credoai_version |-> "credoai.__version__",
                rows |-> df.nrows,
                features |-> feature_cols(df)], NoLocals)

\* ------------------------------------------------------------------ hashing
\* hashlib.sha256 is modelled by a 16-bit streaming hash with the same
\* interface: a running state, update(bytes) folding the bytes in one by
\* one, hexdigest() formatting the state as lower-case hex.
HashMod == 2 ^ 16
sha256_new == 7

RECURSIVE sha_update(_, _)
sha_update(h, data) ==
    IF data = <<>> THEN h
    ELSE sha_update((h * 31 + Head(data) + 1) % HashMod, Tail(data))

HexDigits == <<"0", "1", "2", "3", "4", "5", "6", "7",
               "8", "9", "a", "b", "c", "d", "e", "f">>
hexdigest(h) == [k \in 1..4 |-> HexDigits[((h \div (16 ^ (4 - k))) % 16) + 1]]

\* f.read(BUF_SIZE) at offset pos: at most BUF_SIZE bytes, empty at the end.
file_read(content, pos) ==
    SubSeq(content, pos + 1, IF pos + BUF_SIZE < Len(content) THEN pos + BUF_SIZE
                             ELSE Len(content))

\* `if not data: break`
read_ends_loop_short(data) == Len(data) < BUF_SIZE
read_ends_loop(data) == data = <<>>

\* ------------------------------------------------------------------- state
VARIABLES
    \* audit_tools.py
    args,           \* the parsed flags run_fairlearn, run_giskard, run_credo
    fs_dataset,     \* the dataset file: [exists, frame]
    fs_model,       \* whether the model file exists
    installed,      \* the importable libraries
    pc,             \* where main() is
    df,             \* the loaded dataframe
    loaded,         \* what main() has loaded: "dataset", "model"
    reports,        \* what this run wrote to each report path
    stdout,         \* lines printed
    stderr,         \* lines written to sys.stderr
    exit_code,      \* the process exit status, -1 while running
    failed_at,      \* the step whose exception reached the handler, or "none"
    locals,         \* run_fairlearn's locals at its return
    engine,         \* what each call of run_giskard did
    \* train.py
    files,          \* the bytes of the dataset file and of the model file
    hpc,            \* where the tail of train.main() is
    hfile,          \* the path file_sha256 is reading
    pos,            \* its read offset
    sha,            \* its running hash
    hashes,         \* data_hash and model_hash
    manifests,      \* the integrity manifests logged, one per run
    snaps           \* the files' bytes when train.main() reached line 176

audit_vars == <<args, fs_dataset, fs_model, installed, pc, df, loaded, reports,
                stdout, stderr, exit_code, failed_at, locals, engine>>
hash_vars == <<files, hpc, hfile, pos, sha, hashes, manifests, snaps>>
vars == <<audit_vars, hash_vars>>

Libs == {"fairlearn", "giskard", "credoai"}
ReportKinds == {"fairlearn", "giskard", "credo"}
Absent == [exists |-> FALSE]
Written(payload) == [exists |-> TRUE, json |-> payload]
NoFrame == Frame(<<>>, <<>>, 0)
NoHash == <<>>

\* Sequences over S of length 0..n.
SeqsUpTo(S, n) == UNION {[1..k -> S] : k \in 0..n}

\* ----------------------------------------------------------------- datasets
\* The datasets the orchestrator is run on: a usual one, one whose first
\* feature column is constant, one without rows, one without feature
\* columns, one without the target column.
AuditFrames ==
    {Frame(<<"x", "target">>, [x |-> <<1, 3>>, target |-> <<2, 1>>], 2),
     Frame(<<"x", "target">>, [x |-> <<2, 2>>, target |-> <<2, 1>>], 2),
     Frame(<<"x", "target">>, [x |-> <<>>, target |-> <<>>], 0),
     Frame(<<"target">>, [target |-> <<1, 2>>], 2),
     Frame(<<"x">>, [x |-> <<1, 2>>], 2)}

\* The datasets run_fairlearn is checked on: every x and target column of
\* 0..MaxRows rows, with the target column last or first, and with a second
\* feature column w after x.
FairFrames ==
    UNION {
      {Frame(<<"x", "target">>, [x |-> xs, target |-> ts], n) :
          xs \in [1..n -> Values], ts \in [1..n -> Labels]}
      \cup
      {Frame(<<"target", "x", "w">>, [x |-> xs, target |-> ts, w |-> [i \in 1..n |-> 1]], n) :
          xs \in [1..n -> Values], ts \in [1..n -> Labels]}
      : n \in 0..MaxRows}

\* -------------------------------------------------------------- audit: Init
AuditIdle ==
    /\ args = [run_fairlearn |-> FALSE, run_giskard |-> FALSE, run_credo |-> FALSE]
    /\ fs_dataset = [exists |-> FALSE, frame |-> NoFrame]
    /\ fs_model = FALSE
    /\ installed = {}
    /\ pc = "idle"
    /\ df = NoFrame
    /\ loaded = {}
    /\ reports = [k \in ReportKinds |-> Absent]
    /\ stdout = <<>>
    /\ stderr = <<>>
    /\ exit_code = -1
    /\ failed_at = "none"
    /\ locals = NoLocals
    /\ engine = NotCalled

HashIdle ==
    /\ files = [data |-> <<>>, model |-> <<>>]
    /\ hpc = "idle"
    /\ hfile = "none"
    /\ pos = 0
    /\ sha = sha256_new
    /\ hashes = [data |-> NoHash, model |-> NoHash]
    /\ manifests = <<>>
    /\ snaps = files

\* The process starts: parse_args() has returned.
Init ==
    /\ args \in [run_fairlearn : BOOLEAN, run_giskard : BOOLEAN, run_credo : BOOLEAN]
    /\ fs_dataset \in {[exists |-> FALSE, frame |-> NoFrame]}
                      \cup {[exists |-> TRUE, frame |-> f] : f \in AuditFrames}
    /\ fs_model \in BOOLEAN
    /\ installed \in SUBSET Libs
    /\ pc = "main"
    /\ df = NoFrame
    /\ loaded = {}
    /\ reports = [k \in ReportKinds |-> Absent]
    /\ stdout = <<>>
    /\ stderr = <<>>
    /\ exit_code = -1
    /\ failed_at = "none"
    /\ locals = NoLocals
    /\ engine = NotCalled
    /\ HashIdle

\* ---------------------------------------------------------- audit: actions
\* The handler of lines 195-199: one line on stderr, sys.exit(1).
Abort(at, msg) ==
    /\ stderr' = Append(stderr, <<"[audit_tools] Failed: ", msg>>)
    /\ failed_at' = at
    /\ exit_code' = 1
    /\ pc' = "exited"

\* Lines 174-176: no audit selected.
MainNoAudits_loads_first ==
    /\ pc = "main"
    /\ ~(args.run_fairlearn \/ args.run_giskard \/ args.run_credo)
    /\ IF ~fs_dataset.exists
       THEN /\ Abort("load_dataset", "Dataset not found at <path>")
            /\ UNCHANGED <<df, loaded, stdout>>
       ELSE /\ df' = fs_dataset.frame
            /\ loaded' = loaded \cup {"dataset"}
            /\ stdout' = Append(stdout, "No audits selected; exiting cleanly.")
            /\ exit_code' = 0
            /\ pc' = "exited"
            /\ UNCHANGED <<stderr, failed_at>>
    /\ UNCHANGED <<args, fs_dataset, fs_model, installed, reports, locals, engine>>
    /\ UNCHANGED hash_vars
MainNoAudits ==
    /\ pc = "main"
    /\ ~(args.run_fairlearn \/ args.run_giskard \/ args.run_credo)
    /\ stdout' = Append(stdout, "No audits selected; exiting cleanly.")
    /\ exit_code' = 0
    /\ pc' = "exited"
    /\ UNCHANGED <<args, fs_dataset, fs_model, installed, df, loaded, reports,
                   stderr, failed_at, locals, engine>>
    /\ UNCHANGED hash_vars

\* Line 178 with load_dataset, lines 23-28.
LoadDataset ==
    /\ pc = "main"
    /\ args.run_fairlearn \/ args.run_giskard \/ args.run_credo
    /\ IF ~fs_dataset.exists
       THEN /\ Abort("load_dataset", "Dataset not found at <path>")
            /\ UNCHANGED <<df, loaded>>
       ELSE /\ df' = fs_dataset.frame
            /\ loaded' = loaded \cup {"dataset"}
            /\ pc' = "load_model"
            /\ UNCHANGED <<stderr, exit_code, failed_at>>
    /\ UNCHANGED <<args, fs_dataset, fs_model, installed, reports, stdout,
                   locals, engine>>
    /\ UNCHANGED hash_vars

\* Line 179 with load_model, lines 31-34.
LoadModel ==
    /\ pc = "load_model"
    /\ IF ~fs_model
       THEN /\ Abort("load_model", "Model artifact not found at <path>")
            /\ UNCHANGED loaded
       ELSE /\ loaded' = loaded \cup {"model"}
            /\ pc' = "fairlearn"
            /\ UNCHANGED <<stderr, exit_code, failed_at>>
    /\ UNCHANGED <<args, fs_dataset, fs_model, installed, df, reports, stdout,
                   locals, engine>>
    /\ UNCHANGED hash_vars

\* Lines 181-183.
FairlearnStep_keeps_going ==
    /\ pc = "fairlearn"
    /\ IF ~args.run_fairlearn
       THEN /\ pc' = "giskard"
            /\ UNCHANGED <<reports, stdout, stderr, exit_code, failed_at, locals>>
       ELSE \E y_pred \in [1..df.nrows -> Labels] :
              LET r == run_fairlearn(installed, df, y_pred)
              IN IF r.raised
                 THEN /\ stderr' = Append(stderr, <<"[audit_tools] Failed: ", r.message>>)
                      /\ pc' = "giskard"
                      /\ UNCHANGED <<reports, stdout, locals, exit_code, failed_at>>
                 ELSE /\ reports' = [reports EXCEPT !["fairlearn"] = Written(r.payload)]
                      /\ locals' = r.locals
                      /\ stdout' = Append(stdout, "Fairlearn report written to <path>")
                      /\ pc' = "giskard"
                      /\ UNCHANGED <<stderr, exit_code, failed_at>>
    /\ UNCHANGED <<args, fs_dataset, fs_model, installed, df, loaded, engine>>
    /\ UNCHANGED hash_vars
FairlearnStep ==
    /\ pc = "fairlearn"
    /\ IF ~args.run_fairlearn
       THEN /\ pc' = "giskard"
            /\ UNCHANGED <<reports, stdout, stderr, exit_code, failed_at, locals>>
       ELSE \E y_pred \in [1..df.nrows -> Labels] :
              LET r == run_fairlearn(installed, df, y_pred)
              IN IF r.raised
                 THEN /\ Abort("fairlearn", r.message)
                      /\ UNCHANGED <<reports, stdout, locals>>
                 ELSE /\ reports' = [reports EXCEPT !["fairlearn"] = Written(r.payload)]
                      /\ locals' = r.locals
                      /\ stdout' = Append(stdout, "Fairlearn report written to <path>")
                      /\ pc' = "giskard"
                      /\ UNCHANGED <<stderr, exit_code, failed_at>>
    /\ UNCHANGED <<args, fs_dataset, fs_model, installed, df, loaded, engine>>
    /\ UNCHANGED hash_vars

\* Lines 185-187.
GiskardStep ==
    /\ pc = "giskard"
    /\ IF ~args.run_giskard
       THEN /\ pc' = "credo"
            /\ UNCHANGED <<reports, stdout, stderr, exit_code, failed_at, engine>>
       ELSE \E choice \in [EngineCalls -> {"returned", "raised"}] :
              LET eng == engine_calls(installed, df, choice)
                  r == run_giskard(installed, df, eng)
              IN /\ engine' = eng
                 /\ IF r.raised
                    THEN /\ Abort("giskard", r.message)
                         /\ UNCHANGED <<reports, stdout>>
                    ELSE /\ reports' = [reports EXCEPT !["giskard"] = Written(r.payload)]
                         /\ stdout' = Append(stdout, "Giskard report written to <path>")
                         /\ pc' = "credo"
                         /\ UNCHANGED <<stderr, exit_code, failed_at>>
    /\ UNCHANGED <<args, fs_dataset, fs_model, installed, df, loaded, locals>>
    /\ UNCHANGED hash_vars

\* Lines 189-191, and main() returning: the process exits 0.
CredoStep ==
    /\ pc = "credo"
    /\ IF ~args.run_credo
       THEN /\ pc' = "exited"
            /\ exit_code' = 0
            /\ UNCHANGED <<reports, stdout, stderr, failed_at>>
       ELSE LET r == run_credo(installed, df)
            IN IF r.raised
               THEN /\ Abort("credo", r.message)
                    /\ UNCHANGED <<reports, stdout>>
               ELSE /\ reports' = [reports EXCEPT !["credo"] = Written(r.payload)]
                    /\ stdout' = Append(stdout, "Credo AI metadata written to <path>")
                    /\ pc' = "exited"
                    /\ exit_code' = 0
                    /\ UNCHANGED <<stderr, failed_at>>
    /\ UNCHANGED <<args, fs_dataset, fs_model, installed, df, loaded, locals, engine>>
    /\ UNCHANGED hash_vars

Next == MainNoAudits \/ LoadDataset \/ LoadModel \/ FairlearnStep \/ GiskardStep \/ CredoStep

Spec == Init /\ [][Next]_vars

\* ------------------------------------------------- run_fairlearn on its own
\* main() has loaded a dataset of FairFrames and the model, fairlearn is the
\* selected audit, every library is installed.
InitFair ==
    /\ args = [run_fairlearn |-> TRUE, run_giskard |-> FALSE, run_credo |-> FALSE]
    /\ fs_dataset \in {[exists |-> TRUE, frame |-> f] : f \in FairFrames}
    /\ fs_model = TRUE
    /\ installed = Libs
    /\ pc = "fairlearn"
    /\ df = fs_dataset.frame
    /\ loaded = {"dataset", "model"}
    /\ reports = [k \in ReportKinds |-> Absent]
    /\ stdout = <<>>
    /\ stderr = <<>>
    /\ exit_code = -1
    /\ failed_at = "none"
    /\ locals = NoLocals
    /\ engine = NotCalled
    /\ HashIdle

NextFair == FairlearnStep

SpecFair == InitFair /\ [][NextFair]_vars

\* ------------------------------------------------- train.py, lines 176-186
\* train.main() has persisted the model (line 173); the dataset file and
\* the model file hold some bytes.
InitHash ==
    /\ AuditIdle
    /\ files \in [data : SeqsUpTo(Bytes, MaxFileLen), model : SeqsUpTo(Bytes, MaxFileLen)]
    /\ hpc = "hash_data"
    /\ hfile = "none"
    /\ pos = 0
    /\ sha = sha256_new
    /\ hashes = [data |-> NoHash, model |-> NoHash]
    /\ manifests = <<>>
    /\ snaps = files

\* file_sha256, lines 94-96: a fresh hash, the file opened for reading.
FileSha256Open ==
    /\ hpc \in {"hash_data", "hash_model"}
    /\ hfile' = (IF hpc = "hash_data" THEN "data" ELSE "model")
    /\ sha' = sha256_new
    /\ pos' = 0
    /\ hpc' = (IF hpc = "hash_data" THEN "read_data" ELSE "read_model")
    /\ UNCHANGED <<files, hashes, manifests, snaps>>
    /\ UNCHANGED audit_vars

\* file_sha256, lines 97-102: one turn of the loop; the empty read ends it
\* and the digest is returned to line 176 or 177.
FileSha256Read ==
    /\ hpc \in {"read_data", "read_model"}
    /\ LET data == file_read(files[hfile], pos)
       IN IF read_ends_loop(data)
          THEN /\ hashes' = [hashes EXCEPT ![hfile] = hexdigest(sha)]
               /\ hpc' = (IF hpc = "read_data" THEN "hash_model" ELSE "manifest")
               /\ UNCHANGED <<sha, pos>>
          ELSE /\ sha' = sha_update(sha, data)
               /\ pos' = pos + Len(data)
               /\ UNCHANGED <<hashes, hpc>>
    /\ UNCHANGED <<files, hfile, manifests, snaps>>
    /\ UNCHANGED audit_vars

\* Lines 178-186: the manifest is assembled and logged.
BuildManifest ==
    /\ hpc = "manifest"
    /\ manifests' = Append(manifests,
                           [data_path |-> "str(data_path)",
                            data_sha256 |-> hashes.data,
                            model_path |-> "str(model_path)",
                            model_sha256 |-> hashes.model])
    /\ hpc' = "logged"
    /\ UNCHANGED <<files, hfile, pos, sha, hashes, snaps>>
    /\ UNCHANGED audit_vars

\* Lines 176-186 run again over the same files.
Rebuild ==
    /\ hpc = "logged"
    /\ Len(manifests) < MaxRuns
    /\ hpc' = "hash_data"
    /\ hashes' = [data |-> NoHash, model |-> NoHash]
    /\ UNCHANGED <<files, hfile, pos, sha, manifests, snaps>>
    /\ UNCHANGED audit_vars

NextHash == FileSha256Open \/ FileSha256Read \/ BuildManifest \/ Rebuild

SpecHash == InitHash /\ [][NextHash]_vars

\* ==================================================================== claims
\* What the formulas below share.
AnySelected == args.run_fairlearn \/ args.run_giskard \/ args.run_credo
AuditOrder == [fairlearn |-> 1, giskard |-> 2, credo |-> 3]
\* The place of the failing step in the order of the audits; the loads come
\* before every audit.
FailRank ==
    CASE failed_at = "fairlearn" -> 1
      [] failed_at = "giskard" -> 2
      [] failed_at = "credo" -> 3
      [] OTHER -> 0
\* run_giskard has been called and has returned or raised.
GiskardRan ==
    /\ args.run_giskard
    /\ \/ pc = "credo"
       \/ pc = "exited" /\ failed_at \in {"none", "giskard", "credo"}
\* run_fairlearn has been called and has returned or raised.
FairlearnRan ==
    /\ args.run_fairlearn
    /\ \/ pc \in {"giskard", "credo"}
       \/ pc = "exited" /\ failed_at \in {"none", "fairlearn", "giskard", "credo"}
EngineRaised == \E c \in {"Dataset", "Model", "scan", "to_json"} : engine[c] = "raised"

\* C1: with the scan audit selected and giskard importable, an exception
\* raised inside the engine while run_giskard runs never reaches main():
\* run_giskard writes the degraded payload with the keys "warning" and
\* "error" and returns, and the run exits 0 unless a later audit fails.
C1_ScanFaultIsolation ==
    (GiskardRan /\ "giskard" \in installed /\ EngineRaised)
        => /\ failed_at # "giskard"
           /\ reports["giskard"].exists
           /\ {"warning", "error"} \subseteq DOMAIN reports["giskard"].json
           /\ (pc = "exited" /\ failed_at = "none" => exit_code = 0)

\* C2: the audits run in the order fairness, scan, presence-check; a fatal
\* error (dataset or model file missing, library missing for a selected
\* fairness or presence-check audit, no feature columns for fairness) ends
\* the run aborted with exit status 1 and exactly one diagnostic line, and
\* no audit at or after the failing step has written its report.
C2_FailFast ==
    /\ (exit_code = 1 <=> failed_at # "none")
    /\ (exit_code = 1 =>
          /\ pc = "exited"
          /\ Len(stderr) = 1
          /\ \A k \in ReportKinds : AuditOrder[k] >= FailRank => ~reports[k].exists)
    /\ (exit_code # 1 => stderr = <<>>)
    /\ \A k, l \in ReportKinds :
          (reports[l].exists /\ AuditOrder[k] < AuditOrder[l] /\ args[
              CASE k = "fairlearn" -> "run_fairlearn"
                [] k = "giskard" -> "run_giskard"
                [] k = "credo" -> "run_credo"])
            => reports[k].exists
    /\ (pc = "exited" /\ AnySelected /\
          (\/ ~fs_dataset.exists
           \/ ~fs_model
           \/ args.run_fairlearn /\ "fairlearn" \notin installed
           \/ args.run_fairlearn /\ feature_cols(fs_dataset.frame) = <<>>
           \/ args.run_credo /\ "credoai" \notin installed))
         => exit_code = 1

\* A run aborted by the fairness audit while the two later audits were
\* selected: neither wrote a report.
C2_Witness ==
    /\ exit_code = 1
    /\ failed_at = "fairlearn"
    /\ args.run_giskard
    /\ args.run_credo
    /\ feature_cols(df) = <<>>

\* C3: with no audit selected main() returns with exit status 0, writes no
\* report and loads neither the dataset nor the model, also when the
\* dataset or the model file does not exist.
C3_NoOp ==
    (pc = "exited" /\ ~AnySelected)
        => /\ exit_code = 0
           /\ \A k \in ReportKinds : ~reports[k].exists
           /\ loaded = {}
           /\ df = NoFrame
           /\ stderr = <<>>

C3_Witness ==
    /\ pc = "exited"
    /\ ~AnySelected
    /\ ~fs_dataset.exists
    /\ ~fs_model
    /\ exit_code = 0

FairReturned == FairlearnRan /\ failed_at # "fairlearn"
FairReport == reports["fairlearn"].json

\* The first column of the dataset, in declared order, other than target.
FirstFeature ==
    df.columns[CHOOSE i \in DOMAIN df.columns :
                  /\ df.columns[i] # "target"
                  /\ \A j \in 1..(i - 1) : df.columns[j] = "target"]
High == <<"high", FirstFeature>>
Low == <<"low", FirstFeature>>

\* Row i strictly exceeds the median of its column, by rank: at least half
\* of the rows lie strictly below it.
AboveMedian(col, i) ==
    2 * Cardinality({j \in DOMAIN col : col[j] < col[i]}) >= Len(col)

\* C6: for a non-empty numeric first feature column the sensitive attribute
\* gives each row, in row order, exactly one of high_<column> and
\* low_<column>; a row is high iff its value strictly exceeds the column
\* median, so a row equal to the median is low.
C6_MedianSplit ==
    FairReturned =>
        LET col == df.data[FirstFeature]
            sf == locals.sensitive
        IN /\ DOMAIN sf = 1..df.nrows
           /\ \A i \in 1..df.nrows :
                /\ sf[i] \in {High, Low}
                /\ sf[i] = High <=> AboveMedian(col, i)
                /\ Rat(col[i], 1) = median(col) => sf[i] = Low

\* Three rows, one of them at the median and low, one above it and high.
C6_Witness ==
    /\ FairReturned
    /\ df.nrows = 3
    /\ \E i, j \in 1..df.nrows :
          /\ Rat(df.data[FirstFeature][i], 1) = median(df.data[FirstFeature])
          /\ locals.sensitive[i] = Low
          /\ locals.sensitive[j] = High

\* Only one distinct group occurs in the derived sensitive attribute.
SingleGroup ==
    /\ feature_cols(df) # <<>>
    /\ has_target(df)
    /\ df.nrows > 0
    /\ \A i \in 1..df.nrows : ~AboveMedian(df.data[FirstFeature], i)

\* C7 as stated: with a single group the fairness audit fails, writes no
\* fairness report and the run aborts.
C7_SingleGroupIsAnError ==
    (FairlearnRan /\ SingleGroup)
        => /\ failed_at = "fairlearn"
           /\ ~reports["fairlearn"].exists
           /\ exit_code = 1

\* C7 amended: with a single group the fairness audit does not fail; it
\* writes a report whose by_group has exactly one entry, equal to overall,
\* and whose two disparity statistics are 0, and the run goes on.
C7_SingleGroupReport ==
    (FairlearnRan /\ SingleGroup /\ "fairlearn" \in installed)
        => /\ failed_at # "fairlearn"
           /\ reports["fairlearn"].exists
           /\ DOMAIN FairReport.by_group = {Low}
           /\ FairReport.by_group[Low] = FairReport.overall
           /\ FairReport.demographic_parity_difference = <<0, 1>>
           /\ FairReport.equalized_odds_difference = <<0, 1>>
           /\ exit_code # 1

\* A constant first feature column of three rows with a wrong prediction.
C7_Witness ==
    /\ FairlearnRan
    /\ SingleGroup
    /\ df.nrows = 3
    /\ reports["fairlearn"].exists
    /\ FairReport.overall.accuracy # <<1, 1>>

\* C8: in every fairness report the keys of by_group are exactly the
\* distinct sensitive-group values of the input, and every group entry has
\* the metric keys of overall: accuracy and selection_rate.
C8_GroupCoverage ==
    reports["fairlearn"].exists =>
        /\ DOMAIN FairReport.by_group
             = {IF AboveMedian(df.data[FirstFeature], i) THEN High ELSE Low :
                  i \in 1..df.nrows}
        /\ DOMAIN FairReport.by_group = Range(locals.sensitive)
        /\ DOMAIN FairReport.overall = {"accuracy", "selection_rate"}
        /\ \A g \in DOMAIN FairReport.by_group :
             DOMAIN FairReport.by_group[g] = DOMAIN FairReport.overall

\* A report over both groups, and (C8_Witness1) a report over one only.
C8_Witness ==
    /\ reports["fairlearn"].exists
    /\ DOMAIN FairReport.by_group = {High, Low}

\* The sensitive attribute with the two group labels exchanged.
SwapGroups(sf) == [i \in DOMAIN sf |-> IF sf[i] = High THEN Low ELSE High]

\* The rate hit / among of the rows of I that satisfy `among`, 0 when there are
\* none: the per-group rates as the report's reader computes them.
RateIn(I, among(_), hit(_)) ==
    IF {i \in I : among(i)} = {} THEN <<0, 1>>
    ELSE Rat(Cardinality({i \in I : among(i) /\ hit(i)}),
             Cardinality({i \in I : among(i)}))

\* C9: with at least two groups (also when a group has no positive or no
\* negative true label) demographic_parity_difference is the maximum minus
\* the minimum per-group selection rate, equalized_odds_difference is the
\* larger of the true-positive-rate gap and the false-positive-rate gap
\* between the groups, both lie in [0, 1], and both are unchanged when the
\* group labels are exchanged.
C9_Disparity ==
    (reports["fairlearn"].exists /\ Cardinality(Range(locals.sensitive)) >= 2) =>
        LET yt == locals.y_true_bin
            yp == locals.y_pred_bin
            sf == locals.sensitive
            H == {i \in DOMAIN sf : sf[i] = High}
            L == {i \in DOMAIN sf : sf[i] = Low}
            sel == {FairReport.by_group[g].selection_rate : g \in DOMAIN FairReport.by_group}
            tprH == RateIn(H, LAMBDA i : yt[i] = 1, LAMBDA i : yp[i] = 1)
            tprL == RateIn(L, LAMBDA i : yt[i] = 1, LAMBDA i : yp[i] = 1)
            fprH == RateIn(H, LAMBDA i : yt[i] = 0, LAMBDA i : yp[i] = 1)
            fprL == RateIn(L, LAMBDA i : yt[i] = 0, LAMBDA i : yp[i] = 1)
            gap(a, b) == IF RLeq(a, b) THEN RSub(b, a) ELSE RSub(a, b)
            tgap == gap(tprH, tprL)
            fgap == gap(fprH, fprL)
            dpd == FairReport.demographic_parity_difference
            eod == FairReport.equalized_odds_difference
        IN /\ dpd = RSub(RMaxOf(sel), RMinOf(sel))
           /\ eod = (IF RLeq(fgap, tgap) THEN tgap ELSE fgap)
           /\ RLeq(<<0, 1>>, dpd) /\ RLeq(dpd, <<1, 1>>)
           /\ RLeq(<<0, 1>>, eod) /\ RLeq(eod, <<1, 1>>)
           /\ demographic_parity_difference(yt, yp, SwapGroups(sf)) = dpd
           /\ equalized_odds_difference(yt, yp, SwapGroups(sf)) = eod

\* Two groups, one of them without a positive true label, the equalized
\* odds difference decided by the false-positive-rate gap.
C9_Witness ==
    /\ reports["fairlearn"].exists
    /\ Cardinality(Range(locals.sensitive)) = 2
    /\ \E g \in Range(locals.sensitive) :
         \A i \in GroupRows(locals.sensitive, g) : locals.y_true_bin[i] = 0
    /\ FairReport.equalized_odds_difference # <<0, 1>>
    /\ FairReport.equalized_odds_difference # FairReport.demographic_parity_difference

\* The rows of a column, and of a dataset, in the order p.
PermuteSeq(s, p) == [i \in DOMAIN s |-> s[p[i]]]
PermuteFrame(f, p) ==
    Frame(f.columns, [c \in DOMAIN f.data |-> PermuteSeq(f.data[c], p)], f.nrows)

\* C10: the positive label is the first true label in row order; a
\* binarized entry is 1 iff its label is the positive label; on a copy of
\* the data with the rows permuted and the same first true label, the
\* binarized sequences are the permuted binarized sequences.
C10_Binarization ==
    FairReturned =>
        LET yt == df.data["target"]
            yp == locals.y_pred
        IN /\ locals.pos_label = yt[1]
           /\ \A i \in 1..df.nrows :
                /\ locals.y_true_bin[i] = 1 <=> yt[i] = yt[1]
                /\ locals.y_pred_bin[i] = 1 <=> yp[i] = yt[1]
                /\ locals.y_true_bin[i] \in {0, 1}
                /\ locals.y_pred_bin[i] \in {0, 1}
           /\ \A p \in Permutations(1..df.nrows) :
                yt[p[1]] = yt[1] =>
                  LET L2 == fairlearn_locals(PermuteFrame(df, p), PermuteSeq(yp, p))
                  IN /\ L2.y_true_bin = PermuteSeq(locals.y_true_bin, p)
                     /\ L2.y_pred_bin = PermuteSeq(locals.y_pred_bin, p)

\* The positive label is neither the smallest nor the most frequent label.
C10_Witness ==
    /\ FairReturned
    /\ df.data["target"] = <<2, 1, 1>>
    /\ locals.pos_label = 2
    /\ locals.y_pred = <<1, 2, 1>>

\* ------------------------------------------------------------------ hashing
\* The digest of the whole content hashed in one update.
WholeDigest(content) == hexdigest(sha_update(sha256_new, content))

\* C5: file_sha256 returns the digest of the file's bytes, whatever the
\* chunking (empty file, partial last chunk, exact multiple of the chunk);
\* so equal bytes give equal digests, every manifest built over the
\* unmodified files is the same, and the files are left as they were.
C5_HashDeterminism ==
    /\ \A f \in {"data", "model"} :
          hashes[f] # NoHash => hashes[f] = WholeDigest(files[f])
    /\ \A i \in DOMAIN manifests :
          /\ manifests[i].data_sha256 = WholeDigest(files.data)
          /\ manifests[i].model_sha256 = WholeDigest(files.model)
          /\ manifests[i] = manifests[1]
    /\ files = snaps

\* The manifest built twice over a dataset file of exactly two chunks and
\* an empty model file.
C5_Witness ==
    /\ Len(manifests) = MaxRuns
    /\ Len(files.data) = 2 * BUF_SIZE
    /\ files.model = <<>>
    /\ manifests[1] = manifests[MaxRuns]

====
